---- MODULE Spec2Model ----
(***************************************************************************)
(* Timetabling pipeline of timetabling-UDP: conflict graph, integrated     *)
(* constructive scheduler (independent set + best-fit room packing, period *)
(* by period) and the simulated-annealing refiner, as driven by main.      *)
(***************************************************************************)
EXTENDS Integers, Sequences, FiniteSets, TLC

\* ------------------------------------------------------------------------
\* Program constants (internal/domain/constants.go)
\* ------------------------------------------------------------------------
BlocksPerDay == 7
DaysPerWeek == 5
TotalBlocks == BlocksPerDay * DaysPerWeek
ProtectedWednesdayBlock == 2 * BlocksPerDay + 2

CAT == "CATEDRA"
AY == "AYUDANTIA"
LAB == "LABORATORIO"
RoomClassroom == "SALA"
RoomLab == "LABORATORIO"
IND == "CIVIL_INDUSTRIAL"

\* ------------------------------------------------------------------------
\* Bounds of the model
\* ------------------------------------------------------------------------
\* longest activity, in blocks
MaxDur == 2
\* IterationsPerT of the SA configuration
MaxIterPerT == 2

\* ------------------------------------------------------------------------
\* Inputs: activities, rooms, room constraints, plan locations, electives
\* ------------------------------------------------------------------------
Act(course, type, sections, students, teachers, duration, sibling) ==
  [CourseCode |-> course, Type |-> type, Sections |-> sections,
   Students |-> students, TeacherNames |-> teachers, Duration |-> duration,
   SiblingGroupID |-> sibling]

Room(code, capacity, type) == [Code |-> code, Capacity |-> capacity, Type |-> type]

NoConstraints == [p \in {} |-> {}]
NoPlan == [c \in {} |-> [m \in {} |-> 0]]
NoPrerequisites == [c \in {} |-> {}]

\* S2: two sibling lectures of one course, one teacher, two classrooms
MirrorPair(d1, d2) ==
  [activities |-> << Act("C1", CAT, {1}, 50, {"T1"}, d1, "C1-CAT-1"),
                     Act("C1", CAT, {1}, 50, {"T1"}, d2, "C1-CAT-1") >>,
   rooms |-> << Room("R1", 60, RoomClassroom), Room("R2", 70, RoomClassroom) >>,
   constraints |-> NoConstraints, planLocations |-> NoPlan, electives |-> {},
   prerequisites |-> NoPrerequisites]

\* S5: two non-elective single-section courses of (IND, 5), disjoint teachers
CliquePair(d1, d2) ==
  [activities |-> << Act("C1", CAT, {1}, 30, {"T1"}, d1, "C1-CAT-1"),
                     Act("C2", CAT, {1}, 30, {"T2"}, d2, "C2-CAT-1") >>,
   rooms |-> << Room("R1", 40, RoomClassroom), Room("R2", 60, RoomClassroom) >>,
   constraints |-> NoConstraints,
   planLocations |-> [c \in {"C1", "C2"} |-> [m \in {IND} |-> 5]],
   electives |-> {},
   prerequisites |-> [c \in {"C2"} |-> {"C1"}]]

\* a laboratory on the type default and a tutorial with a whitelist
LabPair(d1, d2) ==
  [activities |-> << Act("C3", LAB, {1}, 20, {"T1"}, d1, ""),
                     Act("C4", AY, {1}, 20, {"T2"}, d2, "") >>,
   rooms |-> << Room("LAB1", 30, RoomLab), Room("R1", 40, RoomClassroom),
                Room("LAB2", 40, RoomLab) >>,
   constraints |-> [p \in {<<"C4", AY>>} |-> {"LAB1", "R1"}],
   planLocations |-> NoPlan, electives |-> {}, prerequisites |-> NoPrerequisites]

\* S4 + S6: a lecture next to a lecture of 80 students that fits no room;
\* the two classrooms have the same capacity
BlockedPair(d1, d2) ==
  [activities |-> << Act("C1", CAT, {1}, 30, {"T1"}, d1, "C1-CAT-1"),
                     Act("C2", CAT, {1}, 80, {"T1"}, d2, "C2-CAT-1") >>,
   rooms |-> << Room("R1", 60, RoomClassroom), Room("R2", 60, RoomClassroom) >>,
   constraints |-> NoConstraints, planLocations |-> NoPlan, electives |-> {},
   prerequisites |-> NoPrerequisites]

\* a course and its prerequisite: disjoint teachers, no curriculum clique
PrereqPair ==
  [activities |-> << Act("C1", CAT, {1}, 30, {"T1"}, 1, "C1-CAT-1"),
                     Act("C2", CAT, {1}, 30, {"T2"}, 1, "C2-CAT-1") >>,
   rooms |-> << Room("R1", 40, RoomClassroom), Room("R2", 60, RoomClassroom) >>,
   constraints |-> NoConstraints, planLocations |-> NoPlan, electives |-> {},
   prerequisites |-> [c \in {"C2"} |-> {"C1"}]]

\* S1: one lecture of one teacher and one classroom that holds it
Trivial ==
  [activities |-> << Act("C1", CAT, {1}, 30, {"T1"}, 1, "C1-CAT-1") >>,
   rooms |-> << Room("R1", 40, RoomClassroom) >>,
   constraints |-> NoConstraints, planLocations |-> NoPlan, electives |-> {},
   prerequisites |-> NoPrerequisites]

\* a rooms.csv with its header line only
NoRooms ==
  [activities |-> << Act("C1", CAT, {1}, 30, {"T1"}, 1, "C1-CAT-1") >>,
   rooms |-> << >>,
   constraints |-> NoConstraints, planLocations |-> NoPlan, electives |-> {},
   prerequisites |-> NoPrerequisites]

\* two lectures without conflict and one classroom for both
SharedRoomPair ==
  [activities |-> << Act("C1", CAT, {1}, 30, {"T1"}, 1, "C1-CAT-1"),
                     Act("C2", CAT, {1}, 30, {"T2"}, 1, "C2-CAT-1") >>,
   rooms |-> << Room("R1", 40, RoomClassroom) >>,
   constraints |-> NoConstraints, planLocations |-> NoPlan, electives |-> {},
   prerequisites |-> NoPrerequisites]

\* a course whose two lectures list no sections and have different teachers,
\* in one semester with a second course
UnsectionedCourse ==
  [activities |-> << Act("C1", CAT, {}, 30, {"T1"}, 1, ""),
                     Act("C1", CAT, {}, 50, {"T2"}, 1, ""),
                     Act("C2", CAT, {1}, 30, {"T3"}, 1, "C2-CAT-1") >>,
   rooms |-> << Room("R1", 40, RoomClassroom), Room("R2", 60, RoomClassroom) >>,
   constraints |-> NoConstraints,
   planLocations |-> [c \in {"C1", "C2"} |-> [m \in {IND} |-> 5]],
   electives |-> {}, prerequisites |-> NoPrerequisites]

\* whitelists with the tokens of the constraints file: a lecture on
\* ANY_CLASSROOM alone, a laboratory on ANY_LAB next to one room code
TokenWhitelists ==
  [activities |-> << Act("C1", CAT, {1}, 30, {"T1"}, 1, "C1-CAT-1"),
                     Act("C3", LAB, {1}, 20, {"T2"}, 1, "") >>,
   rooms |-> << Room("R1", 40, RoomClassroom), Room("LAB1", 30, RoomLab),
                Room("LAB2", 40, RoomLab) >>,
   constraints |-> [p \in {<<"C1", "CATEDRA">>, <<"C3", "LABORATORIO">>} |->
                      IF p[1] = "C1" THEN {"ANY_CLASSROOM"} ELSE {"ANY_LAB", "LAB1"}],
   planLocations |-> NoPlan, electives |-> {}, prerequisites |-> NoPrerequisites]

Inputs ==
  UNION { UNION { { MirrorPair(d1, d2), CliquePair(d1, d2), LabPair(d1, d2),
                    BlockedPair(d1, d2) } : d2 \in {1, d1} } : d1 \in 1..MaxDur }
  \cup {PrereqPair, Trivial, NoRooms, SharedRoomPair}

\* three lectures for the graph builders: the second in the course of the
\* first or in another, the third in a second or a third course; sections
\* and teachers equal or not; and one list whose third lecture fits no room
GraphActivities ==
  { << Act("C1", CAT, {1}, 30, {"T1"}, 1, "C1-CAT-1"),
       Act(c2, CAT, {s2}, 30, {t2}, 1, ""),
       Act(c3, CAT, {s3}, 30, {"T3"}, 1, "") >> :
      c2 \in {"C1", "C2"}, s2 \in {1, 2}, t2 \in {"T1", "T2"},
      c3 \in {"C2", "C3"}, s3 \in {1, 2} }
  \cup { << Act("C1", CAT, {1}, 30, {"T1"}, 1, "C1-CAT-1"),
            Act("C1", CAT, {1}, 30, {"T1"}, 1, "C1-CAT-1"),
            Act("C2", CAT, {1}, 80, {"T3"}, 1, "") >> }

\* no plan; the three courses in one semester of one major; the third
\* course in another semester
GraphPlans ==
  { NoPlan,
    [c \in {"C1", "C2", "C3"} |-> [m \in {IND} |-> 5]],
    [c \in {"C1", "C2", "C3"} |-> [m \in {IND} |-> IF c = "C3" THEN 6 ELSE 5]] }

GraphInputs ==
  { [activities |-> acts,
     rooms |-> << Room("R1", 40, RoomClassroom), Room("R2", 60, RoomClassroom) >>,
     constraints |-> NoConstraints, planLocations |-> plan, electives |-> elect,
     prerequisites |-> NoPrerequisites] :
      acts \in GraphActivities, plan \in GraphPlans, elect \in {{}, {"C2"}} }

\* the files of the academic offer: courses with their events, and the
\* weekly distribution of each course
Event(type, sections) ==
  [Type |-> type, LinkedSections |-> sections, TotalStudents |-> 30, Teachers |-> {"T1"}]

OfferCourse(code, events) == [CourseCode |-> code, Activities |-> events]

Distribution(numCAT, numAY, numLAB) == [NumCAT |-> numCAT, NumAY |-> numAY, NumLAB |-> numLAB]

\* linked_sections as listed in the file
SectionLists == { <<>>, <<1>>, <<1, 2>>, <<2, 1>> }

\* a course with two events of any type and a course with one lecture; two
\* weekly lectures, one tutorial, and no entry for laboratories
Offers ==
  { [courses |-> << OfferCourse("C1", << Event(t1, s1), Event(t2, s2) >>),
                    OfferCourse("C2", << Event(CAT, s3) >>) >>,
     distributions |-> [c \in {"C1", "C2"} |-> Distribution(2, 1, 0)]] :
      t1 \in {CAT, AY, LAB}, t2 \in {CAT, AY, LAB},
      s1 \in SectionLists, s2 \in SectionLists, s3 \in SectionLists }

\* the offer of a run whose activities are given as loaded
NoOffer == [courses |-> <<>>, distributions |-> [c \in {} |-> Distribution(0, 0, 0)]]

\* SAConfig values: an integer temperature that one cooling step of rate 1/2
\* takes from InitialTemp to MinTemp
Configs ==
  { [InitialTemp |-> 1, CoolingNum |-> 1, CoolingDen |-> 2, MinTemp |-> 0,
     IterationsPerT |-> n] : n \in {MaxIterPerT} }

\* ------------------------------------------------------------------------
\* State
\* ------------------------------------------------------------------------
VARIABLES
  activities,          \* []domain.Activity: the fields no phase changes
  rooms,               \* []domain.Room
  constraints,         \* loader.RoomConstraints
  planLocations,       \* course -> major -> semester
  electives,           \* set of elective courses
  prerequisites,       \* course -> prerequisite courses
  config,              \* SAConfig
  offer,               \* oferta_academica.json and the distributions of courses.json
  block,               \* Activity.Block per activity id
  room,                \* Activity.Room per activity id
  G,                   \* the working conflict graph
  G0,                  \* the conflict graph as built by main
  blockNum,            \* block counter of the constructive loop
  periodNum,           \* period counter of the constructive loop
  periods,             \* []Period committed so far
  finalDUD,            \* TimetableResult.FinalDUD
  pc,                  \* position of main
  temperature,         \* SA temperature
  iter,                \* index i of the inner SA loop
  iterations,          \* SA proposal counter
  initialCost,         \* SAResult.InitialCost
  currentCost,         \* running cost of the SA loop
  finalCost,           \* SAResult.FinalCost
  blockOccupancy,      \* block -> list of activities
  roomBlockOccupancy,  \* (room, block) -> activity
  lastMove             \* how the last SA proposal ended

inputVars == <<activities, rooms, constraints, planLocations, electives, prerequisites,
              config, offer>>
schedVars == <<G, G0, blockNum, periodNum, periods, finalDUD>>
saVars == <<temperature, iter, iterations, initialCost, currentCost, finalCost,
            blockOccupancy, roomBlockOccupancy, lastMove>>
vars == <<inputVars, block, room, schedVars, pc, saVars>>

Ids == DOMAIN activities
NoActivity == 0

\* ------------------------------------------------------------------------
\* domain: protected block, conflicts between activities
\* ------------------------------------------------------------------------
\* the protected slot taken on every day of the week
IsProtectedSlot(b) == b % BlocksPerDay = ProtectedWednesdayBlock % BlocksPerDay

IsProtectedBlock(b) == b = ProtectedWednesdayBlock

NormDuration(duration) == IF duration < 1 THEN 1 ELSE duration

OccupiesProtectedBlock(startBlock, duration) ==
  LET endBlock == startBlock + NormDuration(duration) - 1
  IN startBlock <= ProtectedWednesdayBlock /\ ProtectedWednesdayBlock <= endBlock

SharesTeacher(a, o) == a.TeacherNames \cap o.TeacherNames # {}

\* a section test that leaves out the comparison of the course codes
SharesSectionAnyCourse(a, o) == a.Sections \cap o.Sections # {}

SharesSection(a, o) ==
  /\ a.CourseCode = o.CourseCode
  /\ a.Sections \cap o.Sections # {}

areConflicting(a1, a2) == SharesTeacher(a1, a2) \/ SharesSection(a1, a2)

\* ------------------------------------------------------------------------
\* graph: vertices and edges
\* ------------------------------------------------------------------------
New == [Vertices |-> {}, Adjacency |-> [v \in {} |-> {}]]

AdjacencyOf(g, v) == IF v \in DOMAIN g.Adjacency THEN g.Adjacency[v] ELSE {}

AddVertex(g, id) ==
  [Vertices |-> g.Vertices \cup {id},
   Adjacency |-> [v \in DOMAIN g.Adjacency \cup {id} |-> AdjacencyOf(g, v)]]

\* an edge entered in the adjacency of its first end only
AddEdgeOneWay(g, id1, id2) ==
  [Vertices |-> g.Vertices,
   Adjacency |-> [v \in DOMAIN g.Adjacency \cup {id1, id2} |->
                    AdjacencyOf(g, v) \cup (IF v = id1 THEN {id2} ELSE {})]]

AddEdge(g, id1, id2) ==
  [Vertices |-> g.Vertices,
   Adjacency |-> [v \in DOMAIN g.Adjacency \cup {id1, id2} |->
                    AdjacencyOf(g, v) \cup (IF v = id1 THEN {id2} ELSE {})
                                     \cup (IF v = id2 THEN {id1} ELSE {})]]

HasEdge(g, id1, id2) == id2 \in AdjacencyOf(g, id1)

RECURSIVE AddVertices(_, _)
AddVertices(g, ids) ==
  IF ids = {} THEN g
  ELSE LET id == CHOOSE x \in ids : TRUE
       IN AddVertices(AddVertex(g, id), ids \ {id})

RECURSIVE AddEdges(_, _)
AddEdges(g, pairs) ==
  IF pairs = {} THEN g
  ELSE LET p == CHOOSE x \in pairs : TRUE
       IN AddEdges(AddEdge(g, p[1], p[2]), pairs \ {p})

\* the pairs i < j of a list of activities
PairsOf(ids) == { p \in ids \X ids : p[1] < p[2] }

\* graph: construction from the pairwise conflicts
BuildFromActivities(acts) ==
  AddEdges(AddVertices(New, DOMAIN acts),
           { p \in PairsOf(DOMAIN acts) : areConflicting(acts[p[1]], acts[p[2]]) })

\* ------------------------------------------------------------------------
\* graph: construction with semester cliques
\* ------------------------------------------------------------------------
\* SectionGroupKey sorts the section ids: the key is the set of sections
SectionGroupKey(sections) == sections

CourseSectionGroups(acts, code) ==
  { SectionGroupKey(acts[i].Sections) : i \in { j \in DOMAIN acts : acts[j].CourseCode = code } }

\* the single-section courses with the electives among them
SingleSectionCoursesWithElectives(acts, elect) ==
  { c \in { acts[i].CourseCode : i \in DOMAIN acts } :
      Cardinality(CourseSectionGroups(acts, c)) = 1 }

SingleSectionCourses(acts, elect) ==
  { c \in { acts[i].CourseCode : i \in DOMAIN acts } :
      Cardinality(CourseSectionGroups(acts, c)) = 1 /\ c \notin elect }

\* the courses gathered under one (major, semester)
SemesterCourses(acts, plan, elect, major, sem) ==
  { c \in SingleSectionCourses(acts, elect) :
      c \in DOMAIN plan /\ major \in DOMAIN plan[c] /\ plan[c][major] = sem }

PlanGroups(plan) ==
  UNION { { <<m, plan[c][m]>> : m \in DOMAIN plan[c] } : c \in DOMAIN plan }

\* the groups of two or more courses: each becomes a clique
CliqueGroups(acts, plan, elect) ==
  { grp \in { SemesterCourses(acts, plan, elect, ms[1], ms[2]) : ms \in PlanGroups(plan) } :
      Cardinality(grp) >= 2 }

\* the activities of the courses of one group
CliqueCourses(acts, grp) == { i \in DOMAIN acts : acts[i].CourseCode \in grp }

RECURSIVE AddCliques(_, _, _)
AddCliques(g, acts, groups) ==
  IF groups = {} THEN g
  ELSE LET grp == CHOOSE x \in groups : TRUE
           members == CliqueCourses(acts, grp)
       IN AddCliques(AddEdges(g, { p \in PairsOf(members) : ~HasEdge(g, p[1], p[2]) }),
                     acts, groups \ {grp})

BuildFromActivitiesWithCliques(acts, plan, elect) ==
  AddCliques(BuildFromActivities(acts), acts, CliqueGroups(acts, plan, elect))

NumVertices(g) == Cardinality(g.Vertices)

Degree(g, id) == Cardinality(g.Adjacency[id])

\* deletion of the id and its adjacency entry without the sweep of the
\* neighbour sets
removeVertexNoSweep(g, id) ==
  [Vertices |-> g.Vertices \ {id},
   Adjacency |-> [v \in g.Vertices \ {id} |-> g.Adjacency[v]]]

\* deletion of a vertex: the id, its adjacency entry, and its id in every
\* neighbour set
removeVertex(g, id) ==
  [Vertices |-> g.Vertices \ {id},
   Adjacency |-> [v \in g.Vertices \ {id} |-> g.Adjacency[v] \ {id}]]

\* the commit without the deletion of the committed vertices
removeVerticesNone(g, ids) == g

RECURSIVE removeVertices(_, _)
removeVertices(g, ids) ==
  IF ids = {} THEN g
  ELSE LET id == CHOOSE x \in ids : TRUE
       IN removeVertices(removeVertex(g, id), ids \ {id})

\* ------------------------------------------------------------------------
\* solver: independent set heuristic
\* ------------------------------------------------------------------------
MaxDegreeVertices(g) ==
  { v \in g.Vertices : \A w \in g.Vertices : Degree(g, w) <= Degree(g, v) }

NonAdjacent(g, S) ==
  { y \in g.Vertices \ S : \A s \in S : y \notin g.Adjacency[s] }

CommonNeighbors(g, S, y) ==
  Cardinality(g.Adjacency[y] \cap UNION { g.Adjacency[s] : s \in S })

\* most common neighbours with the chosen vertices, then highest degree
BestCandidates(g, S) ==
  LET cand == NonAdjacent(g, S)
      better(y, z) ==
        \/ CommonNeighbors(g, S, y) > CommonNeighbors(g, S, z)
        \/ /\ CommonNeighbors(g, S, y) = CommonNeighbors(g, S, z)
           /\ Degree(g, y) > Degree(g, z)
  IN { y \in cand : \A z \in cand : ~better(z, y) }

\* the heuristic stopping at the starting vertex
GrowIndependentSetOnce(g, S) == {S}

RECURSIVE GrowIndependentSet(_, _)
GrowIndependentSet(g, S) ==
  IF NonAdjacent(g, S) = {} THEN {S}
  ELSE UNION { GrowIndependentSet(g, S \cup {y}) : y \in BestCandidates(g, S) }

\* the sets the heuristic can return; ties are broken arbitrarily
findMaxIndependentSet(g) ==
  IF g.Vertices = {} THEN {{}}
  ELSE UNION { GrowIndependentSet(g, {v}) : v \in MaxDegreeVertices(g) }

\* the orders in which a set can be walked
RECURSIVE Orders(_)
Orders(S) ==
  IF S = {} THEN {<<>>}
  ELSE UNION { { <<x>> \o o : o \in Orders(S \ {x}) } : x \in S }

\* ------------------------------------------------------------------------
\* solver: constrained best-fit room packing of one period
\* ------------------------------------------------------------------------
SeqToSet(s) == { s[i] : i \in DOMAIN s }

GetRoomsByType(rs, roomType) == SelectSeq(rs, LAMBDA r : r.Type = roomType)

AllRooms == GetRoomsByType(rooms, RoomClassroom) \o GetRoomsByType(rooms, RoomLab)

eventTypeToString(t) ==
  CASE t = CAT -> "CATEDRA"
    [] t = AY -> "AYUDANTIA"
    [] t = LAB -> "LABORATORIO"
    [] OTHER -> "CATEDRA"

\* allowedCodes != nil
HasAllowedRooms(courseCode, eventType) == <<courseCode, eventType>> \in DOMAIN constraints

GetAllowedRooms(courseCode, eventType) == constraints[<<courseCode, eventType>>]

\* the scheduler without the type restriction: any room when no whitelist
RoomAllowedAnyType(a, r) ==
  LET eventType == eventTypeToString(activities[a].Type)
  IN IF HasAllowedRooms(activities[a].CourseCode, eventType)
     THEN r.Code \in GetAllowedRooms(activities[a].CourseCode, eventType)
     ELSE TRUE

\* whitelist or type restriction of one room for one activity
RoomAllowed(a, r) ==
  LET eventType == eventTypeToString(activities[a].Type)
  IN IF HasAllowedRooms(activities[a].CourseCode, eventType)
     THEN r.Code \in GetAllowedRooms(activities[a].CourseCode, eventType)
     ELSE IF activities[a].Type = LAB THEN r.Type = RoomLab
          ELSE r.Type = RoomClassroom

\* availableRooms: allowed rooms not yet used in this period
AvailableRooms(a, rs, roomAvailability) ==
  { r \in SeqToSet(rs) : r.Code \in roomAvailability /\ RoomAllowed(a, r) }

\* the scan without the comparison of students and capacity
FitsAnyCapacity(a, available) == available

\* the rooms the scan can stop at: those that hold the students
Fits(a, available) == { r \in available : activities[a].Students <= r.Capacity }

\* the scan over the rooms in an order that is not by capacity
FirstFitUnsorted(a, rs, roomAvailability) == Fits(a, AvailableRooms(a, rs, roomAvailability))

\* the room the capacity-sorted scan stops at: sort.Slice is not stable, so
\* any room of the least sufficient capacity can come first
FirstFit(a, rs, roomAvailability) ==
  LET fits == Fits(a, AvailableRooms(a, rs, roomAvailability))
  IN { r \in fits : \A q \in fits : r.Capacity <= q.Capacity }

\* the packing without the used mark
MarkUsedForgotten(roomAvailability, code) == roomAvailability

MarkUsed(roomAvailability, code) == roomAvailability \ {code}

RECURSIVE assignRooms(_, _, _, _)
assignRooms(order, rs, roomAvailability, allAssignments) ==
  IF order = <<>> THEN {allAssignments}
  ELSE LET a == Head(order)
           fit == FirstFit(a, rs, roomAvailability)
       IN IF fit = {}
          THEN assignRooms(Tail(order), rs, roomAvailability, allAssignments)
          ELSE UNION { assignRooms(Tail(order), rs, MarkUsed(roomAvailability, r.Code),
                                   Append(allAssignments,
                                          [RoomCode |-> r.Code, Capacity |-> r.Capacity,
                                           Activity |-> a, Used |-> activities[a].Students])) :
                       r \in fit }

\* the possible Assignments of a period
assignRoomsToPeriodWithConstraints(order, rs) ==
  assignRooms(order, rs, { rs[i].Code : i \in DOMAIN rs }, <<>>)

AssignedIn(assignments) == { assignments[i].Activity : i \in DOMAIN assignments }

\* the packing recording the assignment without writing the activity's room
RoomGivenNone(assignments, a) == ""

RoomGiven(assignments, a) ==
  LET i == CHOOSE j \in DOMAIN assignments : assignments[j].Activity = a
  IN assignments[i].RoomCode

\* ------------------------------------------------------------------------
\* loader: expansion of the academic offer into activities
\* ------------------------------------------------------------------------
parseEventCategory(str) ==
  CASE str = "CATEDRA" -> CAT
    [] str = "AYUDANTIA" -> AY
    [] str = "LABORATORIO" -> LAB
    [] OTHER -> CAT

RECURSIVE Join(_, _)
\* strings.Join of the decimal forms
Join(nums, sep) ==
  IF Len(nums) = 0 THEN ""
  ELSE IF Len(nums) = 1 THEN ToString(nums[1])
  ELSE ToString(nums[1]) \o sep \o Join(Tail(nums), sep)

buildSiblingGroupID(courseCode, sections) ==
  IF Len(sections) = 0 THEN ""
  ELSE courseCode \o "-CAT-" \o Join(sections, ",")

\* the sessions of one event of one course
ExpandEvent(c, a, dist) ==
  LET eventType == parseEventCategory(a.Type)
      n == CASE eventType = CAT -> dist.NumCAT
             [] eventType = AY -> dist.NumAY
             [] eventType = LAB -> dist.NumLAB
      numSessions == IF n = 0 THEN 1 ELSE n
      siblingGroup == IF eventType = CAT
                      THEN buildSiblingGroupID(c.CourseCode, a.LinkedSections)
                      ELSE ""
  IN [session \in 1..numSessions |->
        Act(c.CourseCode, eventType, { a.LinkedSections[i] : i \in DOMAIN a.LinkedSections },
            a.TotalStudents, a.Teachers, 1, siblingGroup)]

RECURSIVE ExpandEvents(_, _, _)
ExpandEvents(c, events, dist) ==
  IF events = <<>> THEN <<>>
  ELSE ExpandEvent(c, Head(events), dist) \o ExpandEvents(c, Tail(events), dist)

RECURSIVE ExpandCourses(_, _)
ExpandCourses(courses, distributions) ==
  IF courses = <<>> THEN <<>>
  ELSE ExpandEvents(Head(courses), Head(courses).Activities,
                    distributions[Head(courses).CourseCode])
       \o ExpandCourses(Tail(courses), distributions)

\* the activities in the order of the file; activityID counts from 1, so the
\* id of an activity is its position
LoadActivitiesWithExpansion(off) == ExpandCourses(off.courses, off.distributions)

\* ------------------------------------------------------------------------
\* Init: the state main holds when it calls the scheduler
\* ------------------------------------------------------------------------
InitFrom(in, cfg, g) ==
    /\ offer = NoOffer
    /\ activities = in.activities
    /\ rooms = in.rooms
    /\ constraints = in.constraints
    /\ planLocations = in.planLocations
    /\ electives = in.electives
    /\ prerequisites = in.prerequisites
    /\ config = cfg
    /\ block = [a \in DOMAIN in.activities |-> -1]
    /\ room = [a \in DOMAIN in.activities |-> ""]
    /\ G = g
    /\ G0 = g
    /\ blockNum = 0
    /\ periodNum = 0
    /\ periods = <<>>
    /\ finalDUD = {}
    /\ pc = "scheduling"
    /\ temperature = 0
    /\ iter = 0
    /\ iterations = 0
    /\ initialCost = 0
    /\ currentCost = 0
    /\ finalCost = 0
    /\ blockOccupancy = <<>>
    /\ roomBlockOccupancy = <<>>
    /\ lastMove = "none"

\* main builds the graph with the semester cliques
InitWith(inputs, configs) ==
  \E in \in inputs, cfg \in configs :
    InitFrom(in, cfg,
             BuildFromActivitiesWithCliques(in.activities, in.planLocations, in.electives))

Init == InitWith(Inputs, Configs)

\* ------------------------------------------------------------------------
\* IntegratedSchedulerWithConstraints: one iteration of the period loop
\* ------------------------------------------------------------------------
\* the loop condition without the test of the block counter
LoopRunsUnbounded == NumVertices(G) > 0

LoopRuns == NumVertices(G) > 0 /\ blockNum < TotalBlocks

\* the period loop without its increment
NextBlockStuck(b) == b

NextBlock(b) == b + 1

SkipProtected ==
  /\ pc = "scheduling"
  /\ LoopRuns
  /\ IsProtectedBlock(blockNum)
  /\ blockNum' = blockNum + 1
  /\ UNCHANGED <<inputVars, block, room, G, G0, periodNum, periods, finalDUD, pc, saVars>>

SchedulePeriod ==
  /\ pc = "scheduling"
  /\ LoopRuns
  /\ ~IsProtectedBlock(blockNum)
  /\ \E colorSet \in findMaxIndependentSet(G) :
       IF colorSet = {}
       THEN /\ pc' = "scheduled"
            /\ finalDUD' = G.Vertices
            /\ UNCHANGED <<block, room, G, blockNum, periodNum, periods>>
       ELSE \E periodActivities \in Orders(colorSet) :
            \E assignments \in assignRoomsToPeriodWithConstraints(periodActivities, AllRooms) :
              LET done == AssignedIn(assignments)
              IN /\ room' = [a \in Ids |-> IF a \in done THEN RoomGiven(assignments, a)
                                          ELSE room[a]]
                 /\ block' = [a \in Ids |-> IF a \in done THEN blockNum ELSE block[a]]
                 /\ G' = removeVertices(G, done)
                 /\ periods' = Append(periods,
                                      [Number |-> blockNum, Block |-> blockNum % TotalBlocks,
                                       Assignments |-> assignments,
                                       Unassigned |-> colorSet \ done])
                 /\ periodNum' = periodNum + 1
                 /\ blockNum' = NextBlock(blockNum)
                 /\ UNCHANGED <<finalDUD, pc>>
  /\ UNCHANGED <<inputVars, G0, saVars>>

\* the scheduler returning without the vertices left in the graph
SchedulerReturnNoDUD ==
  /\ pc = "scheduling"
  /\ ~LoopRuns
  /\ finalDUD' = {}
  /\ pc' = "scheduled"
  /\ UNCHANGED <<inputVars, block, room, G, G0, blockNum, periodNum, periods, saVars>>

SchedulerReturn ==
  /\ pc = "scheduling"
  /\ ~LoopRuns
  /\ finalDUD' = G.Vertices
  /\ pc' = "scheduled"
  /\ UNCHANGED <<inputVars, block, room, G, G0, blockNum, periodNum, periods, saVars>>

\* ------------------------------------------------------------------------
\* solver: simulated annealing, indices
\* ------------------------------------------------------------------------
\* Go's integer division and remainder truncate toward zero
GoDiv(a, b) == IF a >= 0 THEN a \div b ELSE -((-a) \div b)
GoMod(a, b) == a - b * GoDiv(a, b)

blockToDay(b) == GoDiv(b, BlocksPerDay)
blockToSlot(b) == GoMod(b, BlocksPerDay)

abs(x) == IF x < 0 THEN -x ELSE x

Duration(a) == NormDuration(activities[a].Duration)

\* the blocks [blk, blk + duration) of activity a started at blk
Span(a, blk) == blk .. (blk + Duration(a) - 1)

RECURSIVE SeqOfSet(_)
\* the ids of a set in slice order (ascending id)
SeqOfSet(S) ==
  IF S = {} THEN <<>>
  ELSE LET m == CHOOSE x \in S : \A y \in S : x <= y
       IN <<m>> \o SeqOfSet(S \ {m})

\* blockOcc[b]: the list under key b, empty when the map has no such key; a
\* key whose list was emptied is dropped, the code never tells the two apart
BlockOcc(bo, b) == IF b \in DOMAIN bo THEN bo[b] ELSE <<>>

\* roomBlockOcc[key]: the activity under the key, nil when there is none
RoomBlockOcc(rbo, rm, b) == IF <<rm, b>> \in DOMAIN rbo THEN rbo[<<rm, b>>] ELSE NoActivity

buildBlockOccupancy(blk) ==
  [b \in UNION { Span(a, blk[a]) : a \in Ids } |->
     SeqOfSet({ a \in Ids : b \in Span(a, blk[a]) })]

\* the key room + ":" + strconv.Itoa(b) is the pair (room, b); a later
\* activity of the slice overwrites an earlier one on the same key
buildRoomBlockOccupancy(blk, rm) ==
  [k \in UNION { { <<rm[a], b>> : b \in Span(a, blk[a]) } : a \in Ids } |->
     LET on == { a \in Ids : rm[a] = k[1] /\ k[2] \in Span(a, blk[a]) }
     IN CHOOSE a \in on : \A o \in on : o <= a]

buildCliqueMap(c1, c2) ==
  /\ c1 # c2
  /\ \E grp \in CliqueGroups(activities, planLocations, electives) : c1 \in grp /\ c2 \in grp

\* the sibling index and its lecture members
Siblings(a) ==
  IF activities[a].SiblingGroupID = "" THEN {}
  ELSE { s \in Ids : activities[s].SiblingGroupID = activities[a].SiblingGroupID }

CatSibs(a) == { s \in Siblings(a) : activities[s].Type = CAT }

PrereqPairs ==
  { p \in Ids \X Ids :
      /\ activities[p[2]].CourseCode \in DOMAIN prerequisites
      /\ activities[p[1]].CourseCode \in prerequisites[activities[p[2]].CourseCode] }

\* the room choice without the type restriction: any room when no whitelist
selectValidRoomAnyType(a, blk, rbo) ==
  { r.Code : r \in
      { q \in SeqToSet(rooms) :
          /\ \A b \in Span(a, blk) : RoomBlockOcc(rbo, q.Code, b) \in {NoActivity, a}
          /\ HasAllowedRooms(activities[a].CourseCode, eventTypeToString(activities[a].Type))
               => q.Code \in GetAllowedRooms(activities[a].CourseCode,
                                             eventTypeToString(activities[a].Type))
          /\ activities[a].Students <= q.Capacity } }

selectValidRoom(a, blk, rbo) ==
  { r.Code : r \in
      { q \in SeqToSet(rooms) :
          /\ \A b \in Span(a, blk) : RoomBlockOcc(rbo, q.Code, b) \in {NoActivity, a}
          /\ IF HasAllowedRooms(activities[a].CourseCode, eventTypeToString(activities[a].Type))
             THEN q.Code \in GetAllowedRooms(activities[a].CourseCode,
                                             eventTypeToString(activities[a].Type))
             ELSE IF activities[a].Type = LAB THEN q.Type = RoomLab
                  ELSE q.Type = RoomClassroom
          /\ activities[a].Students <= q.Capacity } }

\* the feasibility test of a block without the test of the room's occupancy
hasConflictInBlock(a, blk, rm, bo, rbo) ==
  LET duration == Duration(a)
      startDay == GoDiv(blk, BlocksPerDay)
      endDay == GoDiv(blk + duration - 1, BlocksPerDay)
      slotInDay == GoMod(blk, BlocksPerDay)
  IN IF startDay # endDay THEN TRUE
     ELSE IF slotInDay + duration > BlocksPerDay THEN TRUE
     ELSE IF OccupiesProtectedBlock(blk, duration) THEN TRUE
     ELSE \E b \in Span(a, blk) :
            \E i \in DOMAIN BlockOcc(bo, b) :
               LET other == BlockOcc(bo, b)[i]
               IN /\ other # a
                  /\ \/ SharesTeacher(activities[a], activities[other])
                     \/ SharesSection(activities[a], activities[other])
                     \/ buildCliqueMap(activities[a].CourseCode, activities[other].CourseCode)

hasConflictInBlockWithRoom(a, blk, rm, bo, rbo) ==
  LET duration == Duration(a)
      startDay == GoDiv(blk, BlocksPerDay)
      endDay == GoDiv(blk + duration - 1, BlocksPerDay)
      slotInDay == GoMod(blk, BlocksPerDay)
  IN IF startDay # endDay THEN TRUE
     ELSE IF slotInDay + duration > BlocksPerDay THEN TRUE
     ELSE IF OccupiesProtectedBlock(blk, duration) THEN TRUE
     ELSE \E b \in Span(a, blk) :
            \/ RoomBlockOcc(rbo, rm, b) \notin {NoActivity, a}
            \/ \E i \in DOMAIN BlockOcc(bo, b) :
                 LET other == BlockOcc(bo, b)[i]
                 IN /\ other # a
                    /\ \/ SharesTeacher(activities[a], activities[other])
                       \/ SharesSection(activities[a], activities[other])
                       \/ buildCliqueMap(activities[a].CourseCode, activities[other].CourseCode)

\* the list without its first entry for activity a
RemoveFirst(list, a) ==
  IF \E j \in DOMAIN list : list[j] = a
  THEN LET j == CHOOSE x \in DOMAIN list : list[x] = a /\ \A y \in 1..(x - 1) : list[y] # a
       IN SubSeq(list, 1, j - 1) \o SubSeq(list, j + 1, Len(list))
  ELSE list

removeFromOccupancy(a, blk, rm, bo, rbo) ==
  LET list(b) == IF b \in Span(a, blk) THEN RemoveFirst(BlockOcc(bo, b), a) ELSE BlockOcc(bo, b)
  IN [blockOcc |-> [b \in { x \in DOMAIN bo : list(x) # <<>> } |-> list(b)],
      roomBlockOcc |-> [k \in DOMAIN rbo \ { <<rm, b>> : b \in Span(a, blk) } |-> rbo[k]]]

addToOccupancy(a, blk, rm, bo, rbo) ==
  [blockOcc |-> [b \in DOMAIN bo \cup Span(a, blk) |->
                   IF b \in Span(a, blk) THEN Append(BlockOcc(bo, b), a) ELSE bo[b]],
   roomBlockOcc |-> [k \in DOMAIN rbo \cup { <<rm, b>> : b \in Span(a, blk) } |->
                       IF k[1] = rm /\ k[2] \in Span(a, blk) THEN a ELSE rbo[k]]]

\* ------------------------------------------------------------------------
\* solver: simulated annealing, soft cost
\* ------------------------------------------------------------------------
RECURSIVE Sum(_, _)
\* the sum of f over the set S
Sum(f, S) ==
  IF S = {} THEN 0
  ELSE LET x == CHOOSE y \in S : TRUE
       IN f[x] + Sum(f, S \ {x})

\* the day-separation term of one pair of sibling lectures
DaySeparationCost(n, daySeparation) ==
  IF n = 2
  THEN CASE daySeparation = 3 -> -20
         [] daySeparation = 2 -> 0
         [] daySeparation = 1 -> 25
         [] daySeparation = 0 -> 60
         [] OTHER -> 10
  ELSE IF n >= 3
       THEN (IF daySeparation = 0 THEN 80 ELSE IF daySeparation = 1 THEN 15 ELSE 0)
       ELSE 0

\* the terms of activity a, placed at (blk, rm), against its sibling lectures
siblingPairTerms(a, blk, rm) ==
  LET myDay == blockToDay(blk)
      mySlot == blockToSlot(blk)
      catSibs == CatSibs(a)
      pairCost == [sib \in catSibs \ {a} |->
                     (IF blockToSlot(block[sib]) # mySlot THEN 50 ELSE 0)
                     + (IF room[sib] # rm THEN 30 ELSE 0)
                     + DaySeparationCost(Cardinality(catSibs),
                                         abs(myDay - blockToDay(block[sib])))]
  IN IF activities[a].SiblingGroupID # "" /\ activities[a].Type = CAT
     THEN Sum(pairCost, DOMAIN pairCost)
     ELSE 0

activityCostForBlockAndRoom(a, blk, rm) ==
  LET myDay == blockToDay(blk)
      ayCost == [sib \in { s \in Siblings(a) : activities[s].Type = AY } |->
                   IF myDay = blockToDay(block[sib]) THEN 35 ELSE 0]
  IN siblingPairTerms(a, blk, rm)
     + (IF activities[a].SiblingGroupID # "" /\ activities[a].Type = CAT
        THEN Sum(ayCost, DOMAIN ayCost)
        ELSE 0)
     + (IF activities[a].Type = AY /\ blockToDay(blk) # 2 THEN 10 ELSE 0)

\* the cost of one sibling group, scored against its first lecture
GroupCost(blk, rm, sibs) ==
  LET catSibs == { s \in sibs : activities[s].Type = CAT }
      base == CHOOSE x \in catSibs : \A y \in catSibs : x <= y
      pairCost == [s \in catSibs \ {base} |->
                     (IF blockToSlot(blk[s]) # blockToSlot(blk[base]) THEN 50 ELSE 0)
                     + (IF rm[s] # rm[base] THEN 30 ELSE 0)
                     + DaySeparationCost(Cardinality(catSibs),
                                         abs(blockToDay(blk[s]) - blockToDay(blk[base])))]
      ayPairs == { p \in catSibs \X { s \in sibs : activities[s].Type = AY } :
                     blockToDay(blk[p[1]]) = blockToDay(blk[p[2]]) }
  IN IF Cardinality(catSibs) < 2 THEN 0
     ELSE Sum(pairCost, DOMAIN pairCost) + 35 * Cardinality(ayPairs)

\* the total cost with the Wednesday term charged to every type of activity
calculateTotalCostEveryType(blk, rm) ==
  LET groups == { Siblings(a) : a \in { x \in Ids : activities[x].SiblingGroupID # ""
                                                     /\ activities[x].Type = CAT } }
      groupCost == [g \in groups |-> GroupCost(blk, rm, g)]
  IN Sum(groupCost, groups)
     + 10 * Cardinality({ a \in Ids : blockToDay(blk[a]) # 2 })
     - 15 * Cardinality({ p \in PrereqPairs : blk[p[1]] = blk[p[2]] })

calculateTotalCostWithRooms(blk, rm) ==
  LET groups == { Siblings(a) : a \in { x \in Ids : activities[x].SiblingGroupID # ""
                                                     /\ activities[x].Type = CAT } }
      groupCost == [g \in groups |-> GroupCost(blk, rm, g)]
  IN Sum(groupCost, groups)
     + 10 * Cardinality({ a \in Ids : activities[a].Type = AY /\ blockToDay(blk[a]) # 2 })
     - 15 * Cardinality({ p \in PrereqPairs : blk[p[1]] = blk[p[2]] })

\* ------------------------------------------------------------------------
\* SimulatedAnnealing: the metrics of the result
\* ------------------------------------------------------------------------
\* a percentage without the value for the case of no groups
PercentOrZero(part, total) ==
  IF total = 0 THEN [num |-> 0, den |-> 1] ELSE [num |-> 100 * part, den |-> total]

\* float64(part) / float64(total) * 100.0 as the fraction num/den, and 100.0
\* when total is 0
Percent(part, total) ==
  IF total = 0 THEN [num |-> 100, den |-> 1] ELSE [num |-> 100 * part, den |-> total]

\* the share of the sibling groups of two or more whose members all have the
\* room of the first
calculateRoomConsistency(rm) ==
  LET groups == { Siblings(a) : a \in { x \in Ids : activities[x].SiblingGroupID # "" } }
      counted == { g \in groups : Cardinality(g) >= 2 }
      base(g) == CHOOSE x \in g : \A y \in g : x <= y
      consistent == { g \in counted : \A s \in g : rm[s] = rm[base(g)] }
  IN Percent(Cardinality(consistent), Cardinality(counted))

\* the share of the groups of exactly two sibling lectures that lie three
\* days apart
calculateDaySeparationMetric(blk) ==
  LET groups == { CatSibs(a) : a \in { x \in Ids : activities[x].SiblingGroupID # ""
                                                    /\ activities[x].Type = CAT } }
      counted == { g \in groups : Cardinality(g) = 2 }
      ideal == { g \in counted :
                   \E x \in g : \E y \in g \ {x} :
                     abs(blockToDay(blk[x]) - blockToDay(blk[y])) = 3 }
  IN Percent(Cardinality(ideal), Cardinality(counted))

\* ------------------------------------------------------------------------
\* SimulatedAnnealing: the proposals
\* ------------------------------------------------------------------------
\* delta < 0 || rand.Float64() < math.Exp(-delta/temperature): the draw lies
\* in [0, 1), so a delta of 0 is always accepted; u is the draw's outcome
Accepts(delta, u) == delta < 0 \/ delta = 0 \/ u

Unchanged(kind) ==
  [kind |-> kind, block |-> block, room |-> room, blockOcc |-> blockOccupancy,
   roomBlockOcc |-> roomBlockOccupancy, currentCost |-> currentCost]

BlockDelta(a, newBlock) ==
  activityCostForBlockAndRoom(a, newBlock, room[a])
  - activityCostForBlockAndRoom(a, block[a], room[a])

RoomDelta(a, newRoom) ==
  activityCostForBlockAndRoom(a, block[a], newRoom)
  - activityCostForBlockAndRoom(a, block[a], room[a])

\* the outcomes of the draw that matter: it is never consulted when delta < 0
\* and always succeeds when delta = 0
Draws(delta) == IF delta <= 0 THEN {TRUE} ELSE BOOLEAN

\* a block move that clears the old index entries before the acceptance test
BlockMoveEager(a, newBlock, u) ==
  LET oldBlock == block[a]
      delta == BlockDelta(a, newBlock)
      removed == removeFromOccupancy(a, oldBlock, room[a], blockOccupancy, roomBlockOccupancy)
      added == addToOccupancy(a, newBlock, room[a], removed.blockOcc, removed.roomBlockOcc)
  IN IF newBlock = oldBlock THEN Unchanged("same_block")
     ELSE IF hasConflictInBlockWithRoom(a, newBlock, room[a], blockOccupancy, roomBlockOccupancy)
          THEN Unchanged("hard_conflict")
     ELSE IF Accepts(delta, u)
          THEN [kind |-> "block_accepted",
                block |-> [block EXCEPT ![a] = newBlock],
                room |-> room,
                blockOcc |-> added.blockOcc,
                roomBlockOcc |-> added.roomBlockOcc,
                currentCost |-> currentCost + delta]
          ELSE [kind |-> "metropolis_rejected",
                block |-> block,
                room |-> room,
                blockOcc |-> removed.blockOcc,
                roomBlockOcc |-> removed.roomBlockOcc,
                currentCost |-> currentCost]

\* the state a block move of activity a to newBlock leaves
BlockMove(a, newBlock, u) ==
  LET oldBlock == block[a]
      delta == BlockDelta(a, newBlock)
      removed == removeFromOccupancy(a, oldBlock, room[a], blockOccupancy, roomBlockOccupancy)
      added == addToOccupancy(a, newBlock, room[a], removed.blockOcc, removed.roomBlockOcc)
  IN IF newBlock = oldBlock THEN Unchanged("same_block")
     ELSE IF hasConflictInBlockWithRoom(a, newBlock, room[a], blockOccupancy, roomBlockOccupancy)
          THEN Unchanged("hard_conflict")
     ELSE IF Accepts(delta, u)
          THEN [kind |-> "block_accepted",
                block |-> [block EXCEPT ![a] = newBlock],
                room |-> room,
                blockOcc |-> added.blockOcc,
                roomBlockOcc |-> added.roomBlockOcc,
                currentCost |-> currentCost + delta]
          ELSE Unchanged("metropolis_rejected")

\* the state a room move of activity a to newRoom leaves
RoomMove(a, newRoom, u) ==
  LET oldRoom == room[a]
      delta == RoomDelta(a, newRoom)
      removed == removeFromOccupancy(a, block[a], oldRoom, blockOccupancy, roomBlockOccupancy)
      added == addToOccupancy(a, block[a], newRoom, removed.blockOcc, removed.roomBlockOcc)
  IN IF newRoom = "" \/ newRoom = oldRoom THEN Unchanged("no_room")
     ELSE IF Accepts(delta, u)
          THEN [kind |-> "room_accepted",
                block |-> block,
                room |-> [room EXCEPT ![a] = newRoom],
                blockOcc |-> added.blockOcc,
                roomBlockOcc |-> added.roomBlockOcc,
                currentCost |-> currentCost + delta]
          ELSE Unchanged("metropolis_rejected")

\* SimulatedAnnealing up to its loop: initial cost and occupancy indices
SAEnter ==
  /\ initialCost' = calculateTotalCostWithRooms(block, room)
  /\ currentCost' = calculateTotalCostWithRooms(block, room)
  /\ temperature' = config.InitialTemp
  /\ iter' = 0
  /\ iterations' = 0
  /\ blockOccupancy' = buildBlockOccupancy(block)
  /\ roomBlockOccupancy' = buildRoomBlockOccupancy(block, room)
  /\ lastMove' = "none"
  /\ pc' = "annealing"
  /\ UNCHANGED <<inputVars, block, room, schedVars, finalCost>>

\* main calls SimulatedAnnealing only when nothing is left unscheduled
SAStart ==
  /\ pc = "scheduled"
  /\ finalDUD = {}
  /\ SAEnter

\* the inner loop as a loop that tests its counter after the body
InnerLoopRunsOnce ==
  pc = "annealing" /\ temperature > config.MinTemp /\ iter <= config.IterationsPerT

InnerLoopRuns ==
  pc = "annealing" /\ temperature > config.MinTemp /\ iter < config.IterationsPerT

Apply(out) ==
  /\ block' = out.block
  /\ room' = out.room
  /\ blockOccupancy' = out.blockOcc
  /\ roomBlockOccupancy' = out.roomBlockOcc
  /\ currentCost' = out.currentCost
  /\ lastMove' = out.kind
  /\ iter' = iter + 1
  /\ iterations' = iterations + 1
  /\ UNCHANGED <<inputVars, schedVars, pc, temperature, initialCost, finalCost>>

ProposeBlockMove ==
  /\ InnerLoopRuns
  /\ \E a \in Ids, newBlock \in 0..(TotalBlocks - 1) :
       \E u \in Draws(BlockDelta(a, newBlock)) : Apply(BlockMove(a, newBlock, u))

ProposeRoomMove ==
  /\ InnerLoopRuns
  /\ \E a \in Ids :
       LET valid == selectValidRoom(a, block[a], roomBlockOccupancy)
       IN \E newRoom \in (IF valid = {} THEN {""} ELSE valid) :
            \E u \in Draws(RoomDelta(a, newRoom)) : Apply(RoomMove(a, newRoom, u))

\* temperature *= config.CoolingRate at the end of a batch; with a cooling rate
\* of 1 and no proposals the step leaves every variable as it is, and the
\* loop spins
Cool ==
  /\ pc = "annealing"
  /\ temperature > config.MinTemp
  /\ iter >= config.IterationsPerT
  /\ temperature' = (temperature * config.CoolingNum) \div config.CoolingDen
  /\ iter' = 0
  /\ UNCHANGED <<inputVars, block, room, schedVars, pc, iterations, initialCost,
                 currentCost, finalCost, blockOccupancy, roomBlockOccupancy, lastMove>>

SAReturn ==
  /\ pc = "annealing"
  /\ temperature <= config.MinTemp
  /\ finalCost' = calculateTotalCostWithRooms(block, room)
  /\ pc' = "annealed"
  /\ UNCHANGED <<inputVars, block, room, schedVars, temperature, iter, iterations,
                 initialCost, currentCost, blockOccupancy, roomBlockOccupancy, lastMove>>

MainExport ==
  /\ pc = "annealed"
  /\ pc' = "exported"
  /\ UNCHANGED <<inputVars, block, room, schedVars, saVars>>

\* main: no annealing and no export when some activity is left unscheduled
MainPartial ==
  /\ pc = "scheduled"
  /\ finalDUD # {}
  /\ pc' = "done"
  /\ UNCHANGED <<inputVars, block, room, schedVars, saVars>>

Next ==
  \/ SkipProtected \/ SchedulePeriod \/ SchedulerReturn \/ MainPartial
  \/ SAStart \/ ProposeBlockMove \/ ProposeRoomMove \/ Cool \/ SAReturn \/ MainExport

Spec == Init /\ [][Next]_vars

\* ------------------------------------------------------------------------
\* The refiner called on whatever the scheduler returned, with any SAConfig:
\* SimulatedAnnealing is exported and has no precondition on its activities
\* or on its configuration
\* ------------------------------------------------------------------------
RefinerInputs == { BlockedPair(1, 1), PrereqPair, UnsectionedCourse, TokenWhitelists }

\* a cooling rate of 1/2 with no or one proposal per temperature, and a
\* cooling rate of 1
RefinerConfigs ==
  { [InitialTemp |-> 1, CoolingNum |-> 1, CoolingDen |-> 2, MinTemp |-> 0,
     IterationsPerT |-> n] : n \in {0, 1} }
  \cup { [InitialTemp |-> 1, CoolingNum |-> 1, CoolingDen |-> 1, MinTemp |-> 0,
          IterationsPerT |-> 0] }

RefinerInit == InitWith(RefinerInputs, RefinerConfigs)

RefinerCall ==
  /\ pc = "scheduled"
  /\ SAEnter

RefinerNext ==
  \/ SkipProtected \/ SchedulePeriod \/ SchedulerReturn
  \/ RefinerCall \/ ProposeBlockMove \/ ProposeRoomMove \/ Cool \/ SAReturn

RefinerSpec == RefinerInit /\ [][RefinerNext]_vars

\* the refiner is sequential code: it takes its next step whenever it has one
FairRefinerSpec == RefinerSpec /\ WF_vars(RefinerNext)

\* ------------------------------------------------------------------------
\* The scheduler alone, on the graph with cliques that main hands to it
\* ------------------------------------------------------------------------
SchedulerInit == InitWith(GraphInputs, Configs)

SchedulerNext == SkipProtected \/ SchedulePeriod \/ SchedulerReturn

SchedulerSpec == SchedulerInit /\ [][SchedulerNext]_vars

\* ------------------------------------------------------------------------
\* IntegratedScheduler: the scheduler on the graph of the pairwise conflicts,
\* with no room constraints
\* ------------------------------------------------------------------------
IntegratedSchedulerInit ==
  \E acts \in GraphActivities, cfg \in Configs :
    InitFrom([activities |-> acts,
              rooms |-> << Room("R1", 40, RoomClassroom), Room("R2", 60, RoomClassroom) >>,
              constraints |-> NoConstraints, planLocations |-> NoPlan,
              electives |-> {}, prerequisites |-> NoPrerequisites],
             cfg, BuildFromActivities(acts))

IntegratedSchedulerSpec == IntegratedSchedulerInit /\ [][SchedulerNext]_vars

\* ------------------------------------------------------------------------
\* The loader alone: main up to the return of LoadActivitiesWithExpansion
\* ------------------------------------------------------------------------
LoaderInit ==
  \E off \in Offers, cfg \in Configs :
    /\ offer = off
    /\ activities = <<>>
    /\ rooms = <<>>
    /\ constraints = NoConstraints
    /\ planLocations = NoPlan
    /\ electives = {}
    /\ prerequisites = NoPrerequisites
    /\ config = cfg
    /\ block = <<>>
    /\ room = <<>>
    /\ G = New
    /\ G0 = New
    /\ blockNum = 0
    /\ periodNum = 0
    /\ periods = <<>>
    /\ finalDUD = {}
    /\ pc = "loading"
    /\ temperature = 0
    /\ iter = 0
    /\ iterations = 0
    /\ initialCost = 0
    /\ currentCost = 0
    /\ finalCost = 0
    /\ blockOccupancy = <<>>
    /\ roomBlockOccupancy = <<>>
    /\ lastMove = "none"

\* NewActivity leaves every activity without block and room
LoadActivities ==
  /\ pc = "loading"
  /\ activities' = LoadActivitiesWithExpansion(offer)
  /\ block' = [a \in DOMAIN activities' |-> -1]
  /\ room' = [a \in DOMAIN activities' |-> ""]
  /\ pc' = "loaded"
  /\ UNCHANGED <<rooms, constraints, planLocations, electives, prerequisites, config,
                 offer, schedVars, saVars>>

LoaderNext == LoadActivities

LoaderSpec == LoaderInit /\ [][LoaderNext]_vars

\* ------------------------------------------------------------------------
\* Properties
\* ------------------------------------------------------------------------
IsAssigned(a) == block[a] >= 0 /\ room[a] # ""

Overlap(a, b) == Span(a, block[a]) \cap Span(b, block[b]) # {}

Constructive == pc \in {"scheduling", "scheduled"}

\* C1: two distinct assigned activities whose intervals share a block never
\* have the same room, whatever their durations.
C1_RoomNeverShared ==
  \A a \in Ids, b \in Ids :
    (a # b /\ IsAssigned(a) /\ IsAssigned(b) /\ Overlap(a, b)) => room[a] # room[b]

\* C2: two distinct activities with a block each whose intervals overlap
\* share no teacher, share no section of one course, and their courses are
\* not linked by a curriculum clique.
C2_NoConflictOverlaps ==
  \A a \in Ids, b \in Ids :
    (a # b /\ block[a] >= 0 /\ block[b] >= 0 /\ Overlap(a, b)) =>
      /\ ~SharesTeacher(activities[a], activities[b])
      /\ ~SharesSection(activities[a], activities[b])
      /\ ~buildCliqueMap(activities[a].CourseCode, activities[b].CourseCode)

\* C3: no activity with a block occupies the protected block 16.
C3_ProtectedBlockFree ==
  \A a \in Ids :
    block[a] >= 0 => ProtectedWednesdayBlock \notin Span(a, block[a])

\* C4: every activity with a block b has b mod 7 + duration <= 7: its blocks
\* lie within one day.
C4_WithinOneDay ==
  \A a \in Ids :
    block[a] >= 0 => (block[a] % BlocksPerDay) + activities[a].Duration <= BlocksPerDay

C6_LectureNotAt15 ==
  Constructive =>
    \A a \in Ids :
      (activities[a].Type = CAT /\ activities[a].Duration = 2) =>
        block[a] # ProtectedWednesdayBlock - 1

\* C7: the activities the constructive scheduler commits to one block are
\* pairwise non-adjacent in the conflict graph.
C7_SameBlockIndependent ==
  Constructive =>
    \A a \in Ids, b \in Ids :
      (a # b /\ block[a] >= 0 /\ block[a] = block[b]) => b \notin G0.Adjacency[a]

\* two activities were committed to one block while an adjacent pair exists
C7_Witness ==
  /\ Constructive
  /\ \E a \in Ids, b \in Ids : a # b /\ block[a] >= 0 /\ block[a] = block[b]

\* C8: within one period no two assignments carry the same room: a room
\* given to an activity is out of reach of the later activities of the period.
C8_OneActivityPerRoom ==
  \A p \in DOMAIN periods :
    \A i \in DOMAIN periods[p].Assignments, j \in DOMAIN periods[p].Assignments :
      i # j => periods[p].Assignments[i].RoomCode # periods[p].Assignments[j].RoomCode

\* a period where a later activity would have taken the room of an earlier
\* one had the room not been marked used
C8_Witness ==
  \E p \in DOMAIN periods :
    \E i \in DOMAIN periods[p].Assignments, j \in DOMAIN periods[p].Assignments :
      /\ i < j
      /\ \E r \in FirstFit(periods[p].Assignments[j].Activity, AllRooms,
                           { rooms[k].Code : k \in DOMAIN rooms }) :
           r.Code = periods[p].Assignments[i].RoomCode

\* C9: during annealing both occupancy indices agree with the activities'
\* fields: a is listed under x iff x is in a's interval, and (r, x) maps to a
\* iff a has room r and x is in a's interval.
C9_IndicesExact ==
  pc = "annealing" =>
    \A a \in Ids :
      /\ \A x \in DOMAIN blockOccupancy \cup Span(a, block[a]) :
           (\E i \in DOMAIN BlockOcc(blockOccupancy, x) : BlockOcc(blockOccupancy, x)[i] = a)
             <=> x \in Span(a, block[a])
      /\ \A k \in DOMAIN roomBlockOccupancy \cup { <<room[a], x>> : x \in Span(a, block[a]) } :
           RoomBlockOcc(roomBlockOccupancy, k[1], k[2]) = a
             <=> (room[a] = k[1] /\ k[2] \in Span(a, block[a]))

Rejections == {"same_block", "hard_conflict", "no_room", "metropolis_rejected"}

\* C10: a rejected proposal changes no block, no room, neither occupancy
\* index and not the running cost; these change only when a move is accepted.
C10_RejectionChangesNothing ==
  [][ /\ (iterations' = iterations + 1 /\ lastMove' \in Rejections) =>
           UNCHANGED <<block, room, blockOccupancy, roomBlockOccupancy, currentCost>>
      /\ (pc = "annealing" /\ <<block, room, blockOccupancy, roomBlockOccupancy>>'
                              # <<block, room, blockOccupancy, roomBlockOccupancy>>) =>
           lastMove' \in {"block_accepted", "room_accepted"} ]_vars

\* a proposal with a positive delta failed the acceptance test
C10_Witness == pc = "annealing" /\ lastMove = "metropolis_rejected"

\* C11: while SA runs and when it returns, the running cost equals the total
\* cost recomputed from the blocks and rooms: each accepted move adds exactly
\* the change of the total cost.
C11_NoCostDrift ==
  pc \in {"annealing", "annealed", "exported"} =>
    currentCost = calculateTotalCostWithRooms(block, room)

\* the per-activity parts of the cost: a's terms against its sibling lectures,
\* and the rest of a's contribution
PairPart(a) == siblingPairTerms(a, block[a], room[a])
OwnPart(a) == activityCostForBlockAndRoom(a, block[a], room[a]) - PairPart(a)

\* C12: the per-activity contributions, the terms of a pair of sibling
\* lectures counted once instead of once per member, add up to the total
\* cost in every state the refiner works on.
C12_CostDecomposes ==
  LET pair == [a \in Ids |-> PairPart(a)]
      own == [a \in Ids |-> OwnPart(a)]
  IN pc \in {"annealing", "annealed", "exported"} =>
       Sum(pair, Ids) + 2 * Sum(own, Ids) = 2 * calculateTotalCostWithRooms(block, room)

\* C13: once the constructive loop has ended, the final DUD list holds exactly
\* the vertices left in the working graph, each with block -1 and no room; an
\* activity larger than every room is among them.
C13_FinalDUDExact ==
  pc # "scheduling" =>
    /\ finalDUD = G.Vertices
    /\ \A a \in finalDUD : block[a] = -1 /\ room[a] = ""
    /\ \A a \in Ids :
         (\A i \in DOMAIN rooms : rooms[i].Capacity < activities[a].Students) =>
           a \in finalDUD

\* the lecture of 80 students is left over next to a committed lecture
C13_Witness ==
  /\ pc = "scheduled"
  /\ \E a \in finalDUD : activities[a].Students = 80
  /\ \E a \in Ids : IsAssigned(a)

\* C14: at the end of every constructive period and after every SA step, an
\* activity has a room iff it has a block.
C14_RoomIffBlock ==
  \A a \in Ids : (room[a] # "") <=> (block[a] >= 0)

\* SA has moved one activity to another block while, in the same state, every
\* activity holds a room
C14_Witness ==
  /\ pc = "annealing"
  /\ lastMove = "block_accepted"
  /\ \A a \in Ids : room[a] # ""

\* the block and room the constructive phase committed activity a to
CommittedAt(a) ==
  LET p == CHOOSE q \in DOMAIN periods : a \in AssignedIn(periods[q].Assignments)
  IN [block |-> periods[p].Number, room |-> RoomGiven(periods[p].Assignments, a)]

\* C15: an assigned activity stays assigned: no later constructive period
\* changes its block or room, no SA move takes its block or room away, and
\* nothing changes once SA has returned.
C15_AssignmentMovesForward ==
  [][ \A a \in Ids :
        IsAssigned(a) =>
          /\ IsAssigned(a)'
          /\ (pc = "scheduling" \/ pc \in {"annealed", "exported", "done"}) =>
               (block'[a] = block[a] /\ room'[a] = room[a]) ]_vars

\* the pipeline has ended with an activity away from where the constructive
\* phase had committed it
C15_Witness ==
  /\ pc = "exported"
  /\ \E a \in Ids : block[a] # CommittedAt(a).block /\ room[a] # CommittedAt(a).room

\* C16: an activity of the final DUD list keeps block -1 and no room for the
\* rest of the run, also while the refiner works on a set that holds it.
C16_FinalDUDStaysUnassigned ==
  \A a \in finalDUD : block[a] = -1 /\ room[a] = ""

\* main has returned, with or without the schedule file written
MainReturned == pc \in {"done", "exported"}
Serialized == pc = "exported"

\* C17: when the constructive phase leaves a non-empty final DUD list, the
\* run still ends with the schedule serialized.
C17_PartialStillSerializes ==
  (MainReturned /\ finalDUD # {}) => Serialized

\* C18: the constructive loop ends: every iteration that stays in the loop,
\* the skip of the protected block included, raises the block counter by one,
\* and the counter never passes 35, so the body runs at most 35 times.
C18_ConstructiveLoopBounded ==
  [][ pc = "scheduling" =>
        /\ blockNum <= TotalBlocks
        /\ blockNum' <= TotalBlocks
        /\ periodNum' <= blockNum'
        /\ pc' = "scheduling" => blockNum' = blockNum + 1 ]_vars

\* the loop has run its 35 iterations with a vertex still in the graph
C18_Witness ==
  /\ pc = "scheduled"
  /\ blockNum = TotalBlocks
  /\ periodNum = TotalBlocks - 1
  /\ NumVertices(G) > 0

\* C19: the SA loop ends by its temperature schedule for every SAConfig the
\* refiner takes: once SimulatedAnnealing has started, it returns.
C19_SATerminates == (pc = "annealing") ~> (pc = "annealed")

\* C20: SA with IterationsPerT = 0 is a no-op: on return every activity has
\* the block and room the constructive phase left it with, and the final cost
\* equals the initial cost.
C20_ZeroIterationsNoOp ==
  (pc = "annealed" /\ config.IterationsPerT = 0) =>
    /\ finalCost = initialCost
    /\ iterations = 0
    /\ \A a \in Ids :
         IF \E q \in DOMAIN periods : a \in AssignedIn(periods[q].Assignments)
         THEN block[a] = CommittedAt(a).block /\ room[a] = CommittedAt(a).room
         ELSE block[a] = -1 /\ room[a] = ""

\* SA without proposals has returned on a schedule whose cost is not zero
C20_Witness ==
  /\ pc = "annealed"
  /\ config.IterationsPerT = 0
  /\ finalCost # 0
  /\ \A a \in Ids : IsAssigned(a)

\* pairwise conflict of two activities, by their fields
PairConflict(i, j) ==
  \/ \E t \in activities[i].TeacherNames : t \in activities[j].TeacherNames
  \/ /\ activities[i].CourseCode = activities[j].CourseCode
     /\ \E n \in activities[i].Sections : n \in activities[j].Sections

\* C22: in the graph built from the pairwise conflicts, two distinct
\* activities are adjacent iff they share a teacher name, or share a section
\* id and have the same course code; equal section ids in two different
\* courses alone create no edge.
C22_PairwiseEdges ==
  \A i \in Ids : \A j \in Ids \ {i} :
    j \in G0.Adjacency[i] <=> PairConflict(i, j)

\* two lectures of different courses and teachers with the same section id
\* have been committed to one block
C22_Witness ==
  \E i \in Ids : \E j \in Ids \ {i} :
    /\ activities[i].CourseCode # activities[j].CourseCode
    /\ activities[i].Sections = activities[j].Sections
    /\ activities[i].TeacherNames \cap activities[j].TeacherNames = {}
    /\ block[i] >= 0
    /\ block[i] = block[j]

\* the course has activities, is not elective, and all its activities list
\* the same sections
OneSectionGroup(c) ==
  /\ c \notin electives
  /\ \E i \in Ids : activities[i].CourseCode = c
  /\ \A i \in Ids : \A j \in Ids :
       (activities[i].CourseCode = c /\ activities[j].CourseCode = c) =>
         activities[i].Sections = activities[j].Sections

\* the courses of semester sem of major m that count for its clique
GroupOf(m, sem) ==
  { c \in DOMAIN planLocations :
      /\ m \in DOMAIN planLocations[c]
      /\ planLocations[c][m] = sem
      /\ OneSectionGroup(c) }

InCommonGroup(i, j) ==
  \E c \in DOMAIN planLocations : \E m \in DOMAIN planLocations[c] :
    LET grp == GroupOf(m, planLocations[c][m])
    IN /\ Cardinality(grp) >= 2
       /\ activities[i].CourseCode \in grp
       /\ activities[j].CourseCode \in grp

\* C23: in the graph built with cliques, all activities whose courses fall in
\* a (major, semester) group of two or more non-elective single-section-group
\* courses are pairwise adjacent, and every edge that is not a pairwise
\* teacher/section conflict joins two activities of such a common group.
C23_CliqueEdges ==
  \A i \in Ids : \A j \in Ids \ {i} :
    /\ InCommonGroup(i, j) => j \in G0.Adjacency[i]
    /\ (j \in G0.Adjacency[i] /\ ~PairConflict(i, j)) => InCommonGroup(i, j)

\* a clique edge without pairwise conflict next to an elective course of the
\* same semester that the clique leaves out; the scheduler has placed the two
\* ends of the edge
C23_Witness ==
  \E i \in Ids : \E j \in Ids \ {i} : \E k \in Ids \ {i, j} :
    /\ j \in G0.Adjacency[i]
    /\ ~PairConflict(i, j)
    /\ activities[k].CourseCode \in electives
    /\ activities[k].CourseCode \in DOMAIN planLocations
    /\ planLocations[activities[k].CourseCode] = planLocations[activities[i].CourseCode]
    /\ k \notin G0.Adjacency[i]
    /\ block[i] >= 0
    /\ block[j] >= 0

WellFormed(g) ==
  /\ DOMAIN g.Adjacency = g.Vertices
  /\ \A u \in DOMAIN g.Adjacency :
       /\ u \notin g.Adjacency[u]
       /\ \A v \in g.Adjacency[u] : v \in DOMAIN g.Adjacency /\ u \in g.Adjacency[v]

\* C24: the conflict graph, as built and after every vertex deletion of the
\* scheduler, has symmetric adjacency, no self-loop, and an adjacency entry
\* for every vertex, isolated or not.
C24_GraphWellFormed == WellFormed(G0) /\ WellFormed(G)

\* deletions have left a vertex isolated that had neighbours in the graph as
\* built
C24_Witness ==
  /\ periodNum >= 1
  /\ \E v \in G.Vertices : G.Adjacency[v] = {} /\ G0.Adjacency[v] # {}

\* the rooms of the type that an activity of this type goes to by default
TypeDefaults(a) ==
  { r \in SeqToSet(rooms) :
      r.Type = (IF activities[a].Type = LAB THEN RoomLab ELSE RoomClassroom) }

NoWhitelist(a) ==
  \A k \in DOMAIN constraints :
    k # <<activities[a].CourseCode, eventTypeToString(activities[a].Type)>>

InvalidConfiguration ==
  \/ Len(rooms) = 0
  \/ Len(activities) = 0
  \/ \E a \in Ids : activities[a].Duration < 1

\* C26: on an invalid configuration the core refuses to start: no
\* constructive period is run and no SA proposal is made.
C26_InvalidConfigurationRefused ==
  InvalidConfiguration => (periodNum = 0 /\ periods = <<>> /\ iterations = 0)

\* the states one SA proposal can lead to from the current state: one per
\* value of the draws idx, moveType, newBlock, the room index and Float64
ProposalOutcomes ==
  UNION { UNION { { BlockMove(a, newBlock, u) : u \in Draws(BlockDelta(a, newBlock)) } :
                  newBlock \in 0..(TotalBlocks - 1) } : a \in Ids }
  \cup
  UNION { LET valid == selectValidRoom(a, block[a], roomBlockOccupancy)
          IN UNION { { RoomMove(a, newRoom, u) : u \in Draws(RoomDelta(a, newRoom)) } :
                     newRoom \in (IF valid = {} THEN {""} ELSE valid) } : a \in Ids }

\* C27: the SA randomness is deterministic per seed, the seed being part of
\* the configuration: the activities, rooms, constraints and configuration
\* (all of them in the state) fix each proposal and its accept/reject
\* decision, so a state of the SA loop has one possible outcome of its next
\* proposal.
C27_DeterministicPerSeed ==
  InnerLoopRuns =>
    \A o1 \in ProposalOutcomes : \A o2 \in ProposalOutcomes :
      o1.block = o2.block /\ o1.room = o2.room /\ o1.currentCost = o2.currentCost

\* C28: every lecture the expander produces has a non-empty sibling group
\* id; two lectures have equal ids iff they have the same course and the same
\* set of sections, in whatever order the sections are listed; every tutorial
\* and laboratory has an empty id.
C28_SiblingGroupIDs ==
  pc = "loaded" =>
    /\ \A i \in Ids : activities[i].Type = CAT => activities[i].SiblingGroupID # ""
    /\ \A i \in Ids : \A j \in Ids :
         (activities[i].Type = CAT /\ activities[j].Type = CAT) =>
           (activities[i].SiblingGroupID = activities[j].SiblingGroupID
              <=> /\ activities[i].CourseCode = activities[j].CourseCode
                  /\ activities[i].Sections = activities[j].Sections)
    /\ \A i \in Ids : activities[i].Type # CAT => activities[i].SiblingGroupID = ""

\* S1: exactly one lecture of duration 1 with 30 students and one teacher,
\* one classroom of capacity 40, no cliques
IsTrivial ==
  /\ Len(activities) = 1
  /\ activities[1].Type = CAT
  /\ activities[1].Duration = 1
  /\ activities[1].Students = 30
  /\ Cardinality(activities[1].TeacherNames) = 1
  /\ Len(rooms) = 1
  /\ rooms[1].Type = RoomClassroom
  /\ rooms[1].Capacity = 40
  /\ DOMAIN planLocations = {}

\* C29: in scenario S1 the constructive phase assigns the lecture to block 0
\* in the classroom and leaves the final DUD list empty, and the total soft
\* cost is 0 before SA and 0 after SA.
C29_TrivialScenario ==
  IsTrivial =>
    /\ pc = "scheduled" =>
         /\ block[1] = 0
         /\ room[1] = rooms[1].Code
         /\ finalDUD = {}
         /\ Len(periods) = 1
         /\ calculateTotalCostWithRooms(block, room) = 0
    /\ pc \in {"annealing", "annealed", "exported"} => initialCost = 0
    /\ pc \in {"annealed", "exported"} =>
         /\ finalCost = 0
         /\ calculateTotalCostWithRooms(block, room) = 0
         /\ IsAssigned(1)
    /\ pc # "done"

\* SA has returned in scenario S1 after it has taken the lecture away from
\* block 0
C29_Witness ==
  /\ IsTrivial
  /\ pc = "annealed"
  /\ iterations > 0
  /\ block[1] # 0

\* the fraction lies in [0, 100]
InPercentRange(q) == q.den > 0 /\ 0 <= q.num /\ q.num <= 100 * q.den

\* C30: in every state the room-consistency metric and the ideal
\* day-separation metric lie in [0, 100]; each is 100 when no sibling group is
\* eligible for it (no two activities share a sibling group; no group has
\* exactly two lectures).
C30_MetricsInRange ==
  LET rc == calculateRoomConsistency(room)
      ds == calculateDaySeparationMetric(block)
      twoSiblings == \E a \in Ids : \E b \in Ids \ {a} :
                       /\ activities[a].SiblingGroupID # ""
                       /\ activities[a].SiblingGroupID = activities[b].SiblingGroupID
      lecturePair == \E a \in Ids :
                       /\ activities[a].SiblingGroupID # ""
                       /\ activities[a].Type = CAT
                       /\ Cardinality({ b \in Ids :
                             /\ activities[b].Type = CAT
                             /\ activities[b].SiblingGroupID = activities[a].SiblingGroupID }) = 2
  IN /\ InPercentRange(rc)
     /\ InPercentRange(ds)
     /\ ~twoSiblings => rc.num = 100 * rc.den
     /\ ~lecturePair => ds.num = 100 * ds.den

\* SA has returned with two sibling lectures three days apart in different
\* rooms: room consistency 0, day separation 100
C30_Witness ==
  /\ pc = "annealed"
  /\ calculateRoomConsistency(room).num = 0
  /\ calculateDaySeparationMetric(block).den = 1
  /\ calculateDaySeparationMetric(block).num = 100
  /\ \E a \in Ids : Cardinality(CatSibs(a)) = 2

\* the blocks of activity a when it starts at blk[a]
BlocksOf(blk, a) == blk[a] .. (blk[a] + NormDuration(activities[a].Duration) - 1)

\* all hard constraints of an assignment of blocks and rooms to every
\* activity: blocks within one day of the week, protected block free, one
\* activity per room and block, no overlap of two activities that share a
\* teacher, a section of one course, or whose two courses lie in a common
\* clique group, and a candidate room that holds the students
Feasible(blk, rm) ==
  /\ \A a \in Ids :
       /\ blk[a] >= 0
       /\ blk[a] + NormDuration(activities[a].Duration) <= TotalBlocks
       /\ (blk[a] % BlocksPerDay) + NormDuration(activities[a].Duration) <= BlocksPerDay
       /\ ProtectedWednesdayBlock \notin BlocksOf(blk, a)
       /\ \E i \in DOMAIN rooms :
            /\ rooms[i].Code = rm[a]
            /\ activities[a].Students <= rooms[i].Capacity
            /\ IF <<activities[a].CourseCode, activities[a].Type>> \in DOMAIN constraints
               THEN rm[a] \in constraints[<<activities[a].CourseCode, activities[a].Type>>]
               ELSE rooms[i].Type = (IF activities[a].Type = LAB THEN RoomLab
                                     ELSE RoomClassroom)
  /\ \A a \in Ids : \A b \in Ids \ {a} :
       BlocksOf(blk, a) \cap BlocksOf(blk, b) # {} =>
         /\ rm[a] # rm[b]
         /\ ~PairConflict(a, b)
         /\ ~(activities[a].CourseCode # activities[b].CourseCode /\ InCommonGroup(a, b))

\* the blocks and rooms the refiner was entered with: those the scheduler
\* committed, and none for an activity it left over
EntryBlock ==
  [a \in Ids |-> IF \E q \in DOMAIN periods : a \in AssignedIn(periods[q].Assignments)
                 THEN CommittedAt(a).block ELSE -1]

EntryRoom ==
  [a \in Ids |-> IF \E q \in DOMAIN periods : a \in AssignedIn(periods[q].Assignments)
                 THEN CommittedAt(a).room ELSE ""]

C32_LoopStopsOnlyAtEnd ==
  [][ pc = "scheduling" =>
        /\ pc' = "scheduled" => (blockNum >= TotalBlocks \/ G.Vertices = {})
        /\ (G.Vertices # {} /\ blockNum < TotalBlocks /\ blockNum # ProtectedWednesdayBlock) =>
             /\ pc' = "scheduling"
             /\ periodNum' = periodNum + 1
             /\ blockNum' = blockNum + 1
             /\ Len(periods') = Len(periods) + 1
             /\ LET period == periods'[Len(periods')]
                IN /\ period.Number = blockNum
                   /\ AssignedIn(period.Assignments) \cup period.Unassigned # {}
                   /\ AssignedIn(period.Assignments) \cup period.Unassigned \subseteq G.Vertices ]_vars

\* the scheduler has returned before the end of the week because the graph
\* emptied, after a period that left one of its activities without a room
C32_Witness ==
  /\ pc = "scheduled"
  /\ G.Vertices = {}
  /\ blockNum < TotalBlocks
  /\ \E q \in DOMAIN periods : periods[q].Unassigned # {}

\* room r is a candidate of activity a (whitelist, or default type) that
\* holds its students
FittingCandidate(a, r) ==
  /\ activities[a].Students <= r.Capacity
  /\ IF <<activities[a].CourseCode, activities[a].Type>> \in DOMAIN constraints
     THEN r.Code \in constraints[<<activities[a].CourseCode, activities[a].Type>>]
     ELSE r.Type = (IF activities[a].Type = LAB THEN RoomLab ELSE RoomClassroom)

\* C33: an activity of the period's independent set for which no unused
\* candidate room holds its students gets no room: it keeps block -1 and room
\* "", stays a vertex of the working graph with all its edges, and so can be
\* selected in a later period.
C33_NoRoomStaysInGraph ==
  [][ (pc = "scheduling" /\ Len(periods') = Len(periods) + 1) =>
        LET period == periods'[Len(periods')]
            done == AssignedIn(period.Assignments)
            used == { period.Assignments[i].RoomCode : i \in DOMAIN period.Assignments }
        IN \A a \in done \cup period.Unassigned :
             /\ (\A i \in DOMAIN rooms : ~FittingCandidate(a, rooms[i])) => a \notin done
             /\ a \notin done =>
                  /\ \A i \in DOMAIN rooms :
                       FittingCandidate(a, rooms[i]) => rooms[i].Code \in used
                  /\ block'[a] = -1
                  /\ room'[a] = ""
                  /\ a \in G'.Vertices
                  /\ a \in DOMAIN G'.Adjacency
                  /\ G'.Adjacency[a] = G.Adjacency[a] ]_vars

\* a lecture that found the only classroom taken in the first period holds
\* it in the second
C33_Witness ==
  /\ Len(periods) >= 2
  /\ \E a \in periods[1].Unassigned :
       /\ periods[1].Assignments # <<>>
       /\ a \in AssignedIn(periods[2].Assignments)
       /\ block[a] = periods[2].Number

\* C34: the room given to an activity in a constructive period has the
\* smallest capacity among its candidate rooms (whitelist or type default)
\* that no earlier activity of the period holds and that hold its students.
C34_BestFit ==
  \A q \in DOMAIN periods :
    LET given == periods[q].Assignments
    IN \A i \in DOMAIN given :
         LET a == given[i].Activity
             usedBefore == { given[j].RoomCode : j \in 1..(i - 1) }
             open == { r \in SeqToSet(rooms) :
                         FittingCandidate(a, r) /\ r.Code \notin usedBefore }
         IN /\ \E r \in open : r.Code = given[i].RoomCode /\ r.Capacity = given[i].Capacity
            /\ \A r \in open : given[i].Capacity <= r.Capacity

\* a period has given a room to an activity that a larger room would hold
\* too, and the next larger room to the activity after it
C34_Witness ==
  \E q \in DOMAIN periods :
    /\ Len(periods[q].Assignments) = 2
    /\ periods[q].Assignments[1].Capacity < periods[q].Assignments[2].Capacity
    /\ activities[periods[q].Assignments[1].Activity].Students
         <= periods[q].Assignments[2].Capacity
    /\ activities[periods[q].Assignments[2].Activity].Students
         <= periods[q].Assignments[1].Capacity

\* the vertices the heuristic returned for a period
ColorSetOf(period) == AssignedIn(period.Assignments) \cup period.Unassigned

\* C35: the set the independent-set heuristic returns for a period is
\* maximal in the working graph of that moment: every vertex outside the set
\* is adjacent to a vertex of the set.
C35_IndependentSetMaximal ==
  [][ (pc = "scheduling" /\ Len(periods') = Len(periods) + 1) =>
        LET colorSet == ColorSetOf(periods'[Len(periods')])
        IN /\ colorSet \subseteq G.Vertices
           /\ \A v \in G.Vertices \ colorSet :
                \E s \in colorSet : v \in G.Adjacency[s] ]_vars

\* the first period took two vertices of a graph that has a third one
C35_Witness ==
  /\ Len(periods) >= 1
  /\ Cardinality(ColorSetOf(periods[1])) >= 2
  /\ G0.Vertices \ ColorSetOf(periods[1]) # {}

\* C36: deleting the vertices of the activities a period committed removes
\* their ids from the vertex set, their adjacency entries, and their ids from
\* every neighbour set; no other vertex and no edge between two other
\* vertices is removed.
C36_VertexDeletionFrame ==
  [][ (pc = "scheduling" /\ Len(periods') = Len(periods) + 1) =>
        LET done == AssignedIn(periods'[Len(periods')].Assignments)
        IN /\ G'.Vertices = G.Vertices \ done
           /\ DOMAIN G'.Adjacency = G.Vertices \ done
           /\ \A v \in G.Vertices \ done :
                G'.Adjacency[v] = G.Adjacency[v] \ done ]_vars

\* a committed vertex is gone from a neighbour that keeps another edge
C36_Witness ==
  \E v \in G.Vertices :
    /\ G0.Adjacency[v] \ G.Vertices # {}
    /\ G.Adjacency[v] # {}
    /\ G.Adjacency[v] = G0.Adjacency[v] \cap G.Vertices

\* an edge of the graph that no pairwise conflict accounts for
CliqueAdjacent(i, j) == HasEdge(G0, i, j) /\ ~PairConflict(i, j)

\* C37: the clique map of the SA feasibility check is symmetric and links the
\* courses of two activities iff the graph builder makes the two activities
\* adjacent by clique, so that after SA moves no two activities the graph
\* makes adjacent by clique overlap in time.
C37_CliqueMapMatchesGraph ==
  /\ \A i \in Ids : \A j \in Ids :
       buildCliqueMap(activities[i].CourseCode, activities[j].CourseCode)
         <=> buildCliqueMap(activities[j].CourseCode, activities[i].CourseCode)
  /\ \A i \in Ids : \A j \in Ids \ {i} :
       ~PairConflict(i, j) =>
         (buildCliqueMap(activities[i].CourseCode, activities[j].CourseCode)
            <=> CliqueAdjacent(i, j))
  /\ pc \in {"annealing", "annealed"} =>
       \A i \in Ids : \A j \in Ids \ {i} :
         (CliqueAdjacent(i, j) /\ block[i] >= 0 /\ block[j] >= 0) =>
           BlocksOf(block, i) \cap BlocksOf(block, j) = {}

\* the room type a token of the constraints file stands for
TokenRooms(token) ==
  { r \in SeqToSet(rooms) :
      \/ token = "ANY_CLASSROOM" /\ r.Type = RoomClassroom
      \/ token = "ANY_LAB" /\ r.Type = RoomLab }

\* C38: a whitelist of an activity's (course, type) that lists ANY_CLASSROOM
\* (ANY_LAB) admits every classroom (lab room) as a candidate: in the
\* constructive packing, of the rooms still free in the period, and in the
\* SA room choice, when the room holds the students and is free over the span.
C38_AnyTokensAdmitRooms ==
  \A a \in Ids :
    LET eventType == eventTypeToString(activities[a].Type)
    IN HasAllowedRooms(activities[a].CourseCode, eventType) =>
         \A token \in GetAllowedRooms(activities[a].CourseCode, eventType) :
           \A r \in TokenRooms(token) :
             /\ r \in AvailableRooms(a, AllRooms, { rooms[i].Code : i \in DOMAIN rooms })
             /\ ( /\ pc = "annealing"
                  /\ block[a] >= 0
                  /\ activities[a].Students <= r.Capacity
                  /\ \A b \in BlocksOf(block, a) : \A o \in Ids \ {a} :
                       <<r.Code, b>> \in DOMAIN roomBlockOccupancy =>
                         roomBlockOccupancy[<<r.Code, b>>] # o )
                 => r.Code \in selectValidRoom(a, block[a], roomBlockOccupancy)

\* the activity an accepted SA move takes from its block or its room
MovedBy(blk, rm) == { a \in Ids : blk[a] # block[a] \/ rm[a] # room[a] }

\* C39: when an accepted SA move removes an activity from the (room, block)
\* index, every key it deletes maps to that activity at that moment, and no
\* entry of another activity leaves the index.
C39_RemoveOnlyOwnKeys ==
  [][ (pc = "annealing" /\ lastMove' \in {"block_accepted", "room_accepted"}
         /\ iterations' = iterations + 1) =>
        \A a \in MovedBy(block', room') :
          /\ \A b \in BlocksOf(block, a) :
               <<room[a], b>> \in DOMAIN roomBlockOccupancy =>
                 roomBlockOccupancy[<<room[a], b>>] = a
          /\ \A k \in DOMAIN roomBlockOccupancy :
               roomBlockOccupancy[k] # a => k \in DOMAIN roomBlockOccupancy' ]_vars

====
